---- MODULE Spec2Model ----
(***************************************************************************)
(* trivy-db-updater: the refresh cycle of main() over a cache directory     *)
(* and the fixed backup directory /tmp/trivy_save.                          *)
(*                                                                          *)
(* The file system is modelled as two directory trees (the cache directory  *)
(* and the backup directory), each holding the sub-directory db/ with the   *)
(* two files db/metadata.json and db/trivy.db.  The two trees are disjoint  *)
(* paths (the default --cache-dir /tmp/trivy and /tmp/trivy_save).          *)
(* Every file-system call of the program can fail where the operating       *)
(* system lets it fail; the external trivy process is an opaque step that   *)
(* either exits 0 or non-zero and may leave the cache half written.         *)
(* Time is counted in hours.                                                *)
(***************************************************************************)
EXTENDS Integers, Sequences, FiniteSets, TLC

\* ------------------------------------------------------------------ bounds
\* The clock runs from InitTime to MaxTime.
InitTime == 2
MaxTime == 6
\* The external tool, when it succeeds, schedules the next update this many
\* hours ahead (a property of trivy, not of this program).
ToolInterval == 3

\* ------------------------------------------------------- program constants
\* time.Now().Add(4 * time.Hour)
FourHours == 4

\* The invocations of the program that may run (main is run by a scheduler).
Procs == {1, 2}

\* --------------------------------------------------------------- file data
\* The names os.ReadDir lists in db/, in the (sorted) order it returns them.
Meta == "metadata.json"
Db == "trivy.db"
FileOrder == <<Meta, Db>>
Files == {Meta, Db}

\* A file's content. kind: "absent" (no such file), "garbage" (bytes that are
\* no JSON document of the expected structure, e.g. a truncated file),
\* "blob" (opaque bytes, named by data) or "json" (a JSON object that
\* json.Unmarshal accepts for MetadataJSON; extra says that the document
\* holds more than the canonical encoding of the four fields: unknown keys,
\* white space, a trailing newline).
NoFile ==
    [kind |-> "absent", data |-> "", Version |-> 0, NextUpdate |-> 0,
     UpdatedAt |-> 0, DownloadedAt |-> 0, extra |-> FALSE]
Garbage ==
    [kind |-> "garbage", data |-> "", Version |-> 0, NextUpdate |-> 0,
     UpdatedAt |-> 0, DownloadedAt |-> 0, extra |-> FALSE]
Blob(d) ==
    [kind |-> "blob", data |-> d, Version |-> 0, NextUpdate |-> 0,
     UpdatedAt |-> 0, DownloadedAt |-> 0, extra |-> FALSE]
Doc(v, nu, ua, da, x) ==
    [kind |-> "json", data |-> "", Version |-> v, NextUpdate |-> nu,
     UpdatedAt |-> ua, DownloadedAt |-> da, extra |-> x]

\* type MetadataJSON struct: the four fields the program decodes.
MetadataJSON(v, nu, ua, da) ==
    [Version |-> v, NextUpdate |-> nu, UpdatedAt |-> ua, DownloadedAt |-> da]

\* A directory tree: root (the directory exists), dir (its db/ exists) and
\* the content of each file of db/.
Tree(r, d, m, b) ==
    [root |-> r, dir |-> d, f |-> [n \in Files |-> IF n = Meta THEN m ELSE b]]
NoTree == Tree(FALSE, FALSE, NoFile, NoFile)

WellFormed(t) ==
    /\ t.dir => t.root
    /\ \A n \in Files : t.f[n].kind # "absent" => t.dir

\* ------------------------------------------------------------ readMetadata
\* os.ReadFile then json.Unmarshal: an error unless the file holds a JSON
\* document; the decoded struct keeps the four known fields only.
ReadErr(t) == t.f[Meta].kind # "json"

Unmarshal(c) ==
    MetadataJSON(c.Version, c.NextUpdate, c.UpdatedAt, c.DownloadedAt)

\* json.Marshal of the struct: the canonical document of the four fields.
Marshal(m) ==
    Doc(m.Version, m.NextUpdate, m.UpdatedAt, m.DownloadedAt, FALSE)

\* time.Time.After
\* (variants: receiver and argument exchanged; "not before")
TimeAfterSwapped(t, u) == u > t
TimeNotBefore(t, u) == t >= u
TimeAfter(t, u) == t > u

\* ----------------------------------------------------------------- copyDir
\* One file of the loop body: os.Open(src) or os.Create(dst) fails and the
\* destination is as it was; io.Copy fails after os.Create truncated the
\* destination; or the bytes are copied.
CopyFile(c, d) ==
    { [err |-> TRUE, out |-> d],
      [err |-> TRUE, out |-> Garbage],
      [err |-> FALSE, out |-> c] }

\* The loop over the entries of db/ from the i-th on: entries the source does
\* not hold are not listed; the first error returns, leaving what was copied.
RECURSIVE CopyEntries(_, _, _)
CopyEntries(i, sf, df) ==
    IF i > Len(FileOrder) THEN { [err |-> FALSE, f |-> df] }
    ELSE LET n == FileOrder[i] IN
         IF sf[n].kind = "absent" THEN CopyEntries(i + 1, sf, df)
         ELSE UNION { IF o.err
                      THEN { [err |-> TRUE, f |-> [df EXCEPT ![n] = o.out]] }
                      ELSE CopyEntries(i + 1, sf, [df EXCEPT ![n] = o.out])
                      : o \in CopyFile(sf[n], df[n]) }

\* copyDir(src, dst): MkdirAll(dst), ReadDir(src), then the entries; the one
\* entry of the root is the directory db/, copied by the recursive call.
\* MkdirAll fails only where the directory does not exist yet. Entries the
\* destination already holds and the source does not are left in place.
CopyDir(src, dst) ==
    (IF dst.root THEN {} ELSE { [err |-> TRUE, tree |-> dst] })
    \cup
    LET d1 == [dst EXCEPT !.root = TRUE] IN
    IF ~src.root THEN { [err |-> TRUE, tree |-> d1] }
    ELSE IF ~src.dir THEN { [err |-> FALSE, tree |-> d1] }
    ELSE (IF d1.dir THEN {} ELSE { [err |-> TRUE, tree |-> d1] })
         \cup
         { [err |-> o.err, tree |-> [d1 EXCEPT !.dir = TRUE, !.f = o.f]]
           : o \in CopyEntries(1, src.f, d1.f) }

\* --------------------------------------------------------------- RemoveAll
\* The trees that remain when os.RemoveAll fails: the root and any part of
\* its content are still there.
Remains(t) ==
    { s \in { [root |-> TRUE, dir |-> d, f |-> g]
              : d \in BOOLEAN, g \in [Files -> {NoFile, t.f[Meta], t.f[Db]}] }
      : /\ WellFormed(s)
        /\ s.dir => t.dir
        /\ \A n \in Files : s.f[n] \in {NoFile, t.f[n]} }

\* os.RemoveAll(path): nil when the path does not exist or was removed
\* entirely, an error when something could not be removed.
RemoveAll(t) ==
    IF ~t.root THEN { [err |-> FALSE, tree |-> t] }
    ELSE { [err |-> FALSE, tree |-> NoTree] }
         \cup { [err |-> TRUE, tree |-> s] : s \in Remains(t) }

\* ------------------------------------------------------------ backupTrivyDB
\* os.RemoveAll(backupDir), its error dropped, then os.MkdirAll(backupDir),
\* which fails only where the directory is to be created.
BackupClear(bk) ==
    UNION { (IF r.tree.root THEN {} ELSE { [err |-> TRUE, tree |-> r.tree] })
            \cup { [err |-> FALSE, tree |-> [r.tree EXCEPT !.root = TRUE]] }
            : r \in RemoveAll(bk) }

\* The whole of backupTrivyDB(cacheDir) on cache c and backup directory bk.
BackupTrivyDB(c, bk) ==
    UNION { IF o.err THEN { o } ELSE CopyDir(c, o.tree) : o \in BackupClear(bk) }

\* ------------------------------------------------ updateMetadataNextUpdate
\* readMetadata, NextUpdate = time.Now().Add(4 * time.Hour), json.Marshal,
\* os.WriteFile. A failing WriteFile leaves the file as it was (open failed)
\* or truncated (write failed).
\* (variant: a fresh struct is written, with NextUpdate only)
StampedFresh(m, t) == Marshal(MetadataJSON(0, t + FourHours, 0, 0))
Stamped(m, t) == Marshal([m EXCEPT !.NextUpdate = t + FourHours])

UpdateMetadataNextUpdate(c, t) ==
    IF ReadErr(c) THEN { [err |-> "read", tree |-> c] }
    ELSE { [err |-> "write", tree |-> c],
           [err |-> "write", tree |-> [c EXCEPT !.f[Meta] = Garbage]],
           [err |-> "none",
            tree |-> [c EXCEPT !.f[Meta] = Stamped(Unmarshal(c.f[Meta]), t)]] }

\* ---------------------------------------------------- runTrivyUpdateCommand
\* The external process "trivy image --cache-dir <dir> --download-db-only".
\* Exit status 0: the database is downloaded; trivy writes a fresh metadata
\* file, or leaves the metadata file alone (the program provides for a
\* re-read that fails after a successful run).
ToolSuccess(c, t) ==
    { Tree(TRUE, TRUE, Doc(2, t + ToolInterval, t, t, TRUE), Blob("new")),
      Tree(TRUE, TRUE, c.f[Meta], Blob("new")) }

\* Non-zero exit status: nothing was written, or the download stopped half
\* way, with or without the old metadata file still in place.
ToolFail(c) ==
    { [c EXCEPT !.root = TRUE],
      [c EXCEPT !.root = TRUE, !.dir = TRUE, !.f[Db] = Garbage],
      [c EXCEPT !.root = TRUE, !.dir = TRUE, !.f[Db] = Garbage,
                !.f[Meta] = NoFile] }

\* -------------------------------------------------------------------- state
VARIABLES
    cache,     \* the tree at --cache-dir
    backup,    \* the tree at /tmp/trivy_save
    now,       \* the wall clock, in hours
    active,    \* the invocations that the scheduler may start
    pc,        \* pc[p]: where invocation p stands in main()
    cyc,       \* cyc[p]: what invocation p's current cycle has done so far
    overlap    \* overlap[p]: another invocation has acted during p's cycle or since

vars == <<cache, backup, now, active, pc, cyc, overlap>>

Terminal == {"uptodate", "aborted", "ended", "done"}

\* The record of a cycle that has just started (history of the cycle; the
\* program itself keeps only the metadata it read).
NewCycle(c, bk, t) ==
    [branch |-> "none",    \* "bootstrap", "due" or "uptodate"
     startAt |-> t,        \* clock at the start of the cycle
     pre |-> c,            \* the cache at the start of the cycle
     bkPre |-> bk,         \* the backup directory at the start of the cycle
     snap |-> NoTree,      \* the cache when the backup copy was taken
     bkTaken |-> NoTree,   \* the backup directory when backup returned nil
     tool |-> "none",      \* "ok" or "fail"
     toolTree |-> NoTree,  \* the cache as the external tool left it
     restore |-> "none",   \* "ok", or the step that failed
     stampAt |-> 0 - 1,    \* clock when the metadata was re-stamped
     rollbackAt |-> 0 - 1, \* clock when restoreTrivyDB had copied the backup back
     prevRollbackAt |-> 0 - 1,  \* rollbackAt of the last cycle that rolled back
     afterDegraded |-> FALSE,   \* the cycle before left the cache degraded
     read |-> MetadataJSON(0, 0, 0, 0),  \* what the re-stamp decoded
     reported |-> 0 - 1,   \* the NextUpdate printed, if any
     steps |-> <<>>,       \* the operations called, in order
     log |-> <<>>]         \* the lines printed, in order

\* (variant: a metadata read error ends the run instead of forcing a refresh)
DecideErrorsOut(c, t) ==
    IF ReadErr(c) THEN "uptodate"
    ELSE IF TimeAfter(t, Unmarshal(c.f[Meta]).NextUpdate) THEN "due"
    ELSE "uptodate"

\* The decision of main(): lines 152-153 and 175.
Decide(c, t) ==
    IF ReadErr(c) THEN "bootstrap"
    ELSE IF TimeAfter(t, Unmarshal(c.f[Meta]).NextUpdate) THEN "due"
    ELSE "uptodate"

InitDocs ==
    { Doc(2, InitTime + 1, InitTime - 1, InitTime, x) : x \in BOOLEAN }

InitCaches ==
    { NoTree, Tree(TRUE, FALSE, NoFile, NoFile) }
    \cup { Tree(TRUE, TRUE, m, b)
           : m \in {NoFile, Garbage} \cup InitDocs, b \in {NoFile, Blob("old")} }

\* What /tmp/trivy_save may hold before the first cycle: nothing, or the
\* snapshot an earlier cycle left there.
InitBackups ==
    { NoTree,
      Tree(TRUE, TRUE, Doc(1, InitTime, InitTime - 2, InitTime - 2, TRUE),
           Blob("older")) }

Init ==
    /\ cache \in InitCaches
    /\ backup \in InitBackups
    /\ now = InitTime
    /\ active = {1}
    /\ pc = [p \in Procs |-> "idle"]
    /\ cyc = [p \in Procs |-> NewCycle(NoTree, NoTree, InitTime)]
    /\ overlap = [p \in Procs |-> FALSE]

\* History: the time of the last rollback that no later refresh has followed
\* (carried over the up-to-date cycles in between), or -1.
LastRollback(p) ==
    IF pc[p] = "ended" /\ cyc[p].restore \in {"ok", "stamp:read"}
    THEN cyc[p].rollbackAt
    ELSE IF pc[p] = "uptodate" THEN cyc[p].prevRollbackAt
    ELSE 0 - 1

\* History: the cycle of p that has just ended removed the cache and failed
\* to copy the backup back (restoreTrivyDB returned at line 123).
Degraded(p) == pc[p] = "ended" /\ cyc[p].restore = "copy"

Goto(p, l) == pc' = [pc EXCEPT ![p] = l]

\* Invocation q is between its first read of the metadata and its exit.
Mid(q) == pc[q] \notin {"idle"} \cup Terminal

\* History: a step of invocation p falls into the cycle of every other
\* invocation that has started; a cycle that p starts while another invocation
\* is under way is overlapped from the start.
Overlaps(p) ==
    overlap' = [q \in Procs |->
                   IF q # p THEN overlap[q] \/ pc[q] # "idle"
                   ELSE IF Mid(p) THEN overlap[p]
                   ELSE \E r \in Procs \ {p} : Mid(r)]

\* main(), lines 147-154 and 175-176, 194-197: read the metadata and decide.
Invoke(p) ==
    /\ p \in active
    /\ pc[p] \in {"idle"} \cup Terminal
    /\ LET d == Decide(cache, now)
           c0 == [NewCycle(cache, backup, now) EXCEPT !.branch = d,
                                                      !.prevRollbackAt = LastRollback(p),
                                                      !.afterDegraded = Degraded(p),
                                                      !.steps = <<"read">>]
       IN  \/ /\ d = "bootstrap"
              /\ cyc' = [cyc EXCEPT ![p] =
                     [c0 EXCEPT !.log = <<"Error reading metadata.json",
                                         "Executing Trivy DB download...">>]]
              /\ Goto(p, "backup")
           \/ /\ d = "due"
              /\ cyc' = [cyc EXCEPT ![p] =
                     [c0 EXCEPT !.log = <<"Updating Trivy DB...">>]]
              /\ Goto(p, "backup")
           \/ /\ d = "uptodate"
              /\ cyc' = [cyc EXCEPT ![p] =
                     [c0 EXCEPT !.log = <<"Trivy DB is up-to-date",
                                         "Next Trivy DB update will happen at">>,
                                !.reported = Unmarshal(cache.f[Meta]).NextUpdate]]
              /\ Goto(p, "uptodate")
    /\ Overlaps(p)
    /\ UNCHANGED <<cache, backup, now, active>>

\* backupTrivyDB, lines 78-84, called at 156 and 177.
BackupRemove(p) ==
    /\ pc[p] = "backup"
    /\ \E o \in BackupClear(backup) :
          /\ backup' = o.tree
          /\ IF o.err
             THEN /\ cyc' = [cyc EXCEPT ![p].steps = Append(@, "backup"),
                                        ![p].log = Append(@, "Error backing up Trivy DB")]
                  /\ Goto(p, "aborted")
             ELSE /\ cyc' = [cyc EXCEPT ![p].steps = Append(@, "backup")]
                  /\ Goto(p, "backupCopy")
    /\ Overlaps(p)
    /\ UNCHANGED <<cache, now, active>>

\* (variant: the return after a failed backup is missing)
BackupCopyNoReturn(p) ==
    /\ pc[p] = "backupCopy"
    /\ \E o \in CopyDir(cache, backup) :
          /\ backup' = o.tree
          /\ IF o.err
             THEN cyc' = [cyc EXCEPT ![p].log = Append(@, "Error backing up Trivy DB")]
             ELSE cyc' = [cyc EXCEPT ![p].snap = cache,
                                     ![p].bkTaken = o.tree,
                                     ![p].log = Append(@, "Successfully backed up")]
    /\ Goto(p, "run")
    /\ Overlaps(p)
    /\ UNCHANGED <<cache, now, active>>

\* backupTrivyDB, lines 86-91.
BackupCopy(p) ==
    /\ pc[p] = "backupCopy"
    /\ \E o \in CopyDir(cache, backup) :
          /\ backup' = o.tree
          /\ IF o.err
             THEN /\ cyc' = [cyc EXCEPT ![p].log = Append(@, "Error backing up Trivy DB")]
                  /\ Goto(p, "aborted")
             ELSE /\ cyc' = [cyc EXCEPT ![p].snap = cache,
                                        ![p].bkTaken = o.tree,
                                        ![p].log = Append(@, "Successfully backed up")]
                  /\ Goto(p, "run")
    /\ Overlaps(p)
    /\ UNCHANGED <<cache, now, active>>

\* (variant: the bootstrap branch does not restore after a failed update)
RunToolBootstrapNoRestore(p) ==
    /\ pc[p] = "run"
    /\ \/ \E t \in ToolSuccess(cache, now) :
             /\ cache' = t
             /\ cyc' = [cyc EXCEPT ![p].steps = Append(@, "run"),
                                   ![p].tool = "ok",
                                   ![p].toolTree = t,
                                   ![p].log = IF cyc[p].branch = "due"
                                              THEN Append(@, "Trivy DB update complete.")
                                              ELSE @]
             /\ Goto(p, "report")
       \/ \E t \in ToolFail(cache) :
             /\ cache' = t
             /\ cyc' = [cyc EXCEPT ![p].steps = Append(@, "run"),
                                   ![p].tool = "fail",
                                   ![p].toolTree = t,
                                   ![p].log = Append(@, "trivy command failed")]
             /\ Goto(p, IF cyc[p].branch = "bootstrap" THEN "ended" ELSE "restore")
    /\ Overlaps(p)
    /\ UNCHANGED <<backup, now, active>>

\* runTrivyUpdateCommand, called at 160 and 181.
RunTool(p) ==
    /\ pc[p] = "run"
    /\ \/ \E t \in ToolSuccess(cache, now) :
             /\ cache' = t
             /\ cyc' = [cyc EXCEPT ![p].steps = Append(@, "run"),
                                   ![p].tool = "ok",
                                   ![p].toolTree = t,
                                   ![p].log = IF cyc[p].branch = "due"
                                              THEN Append(@, "Trivy DB update complete.")
                                              ELSE @]
             /\ Goto(p, "report")
       \/ \E t \in ToolFail(cache) :
             /\ cache' = t
             /\ cyc' = [cyc EXCEPT ![p].steps = Append(@, "run"),
                                   ![p].tool = "fail",
                                   ![p].toolTree = t,
                                   ![p].log = @ \o <<"trivy command failed",
                                                     "Update failed, restoring from backup...">>]
             /\ Goto(p, "restore")
    /\ Overlaps(p)
    /\ UNCHANGED <<backup, now, active>>

\* (variant: the copy-back starts although removing the cache has failed)
RestoreRemoveGoesOn(p) ==
    /\ pc[p] = "restore"
    /\ \E o \in RemoveAll(cache) :
          /\ cache' = o.tree
          /\ cyc' = [cyc EXCEPT ![p].steps = Append(@, "remove")]
          /\ Goto(p, "restoreCopy")
    /\ Overlaps(p)
    /\ UNCHANGED <<backup, now, active>>

\* restoreTrivyDB, lines 118-120, called at 163 and 184.
RestoreRemove(p) ==
    /\ pc[p] = "restore"
    /\ \E o \in RemoveAll(cache) :
          /\ cache' = o.tree
          /\ IF o.err
             THEN /\ cyc' = [cyc EXCEPT ![p].steps = Append(@, "remove"),
                                        ![p].restore = "remove",
                                        ![p].log = Append(@, "Error restoring from backup")]
                  /\ Goto(p, "ended")
             ELSE /\ cyc' = [cyc EXCEPT ![p].steps = Append(@, "remove")]
                  /\ Goto(p, "restoreCopy")
    /\ Overlaps(p)
    /\ UNCHANGED <<backup, now, active>>

\* (variant: the backup directory is removed once it has been copied back)
RestoreCopyConsumes(p) ==
    /\ pc[p] = "restoreCopy"
    /\ \E o \in CopyDir(backup, cache) :
          /\ cache' = o.tree
          /\ IF o.err
             THEN /\ cyc' = [cyc EXCEPT ![p].steps = Append(@, "copy"),
                                        ![p].restore = "copy",
                                        ![p].log = Append(@, "Error restoring from backup")]
                  /\ backup' = backup
                  /\ Goto(p, "ended")
             ELSE /\ cyc' = [cyc EXCEPT ![p].steps = Append(@, "copy")]
                  /\ backup' = NoTree
                  /\ Goto(p, "restoreStamp")
    /\ Overlaps(p)
    /\ UNCHANGED <<now, active>>

\* (variant: the re-stamp follows a copy-back that has failed)
RestoreCopyGoesOn(p) ==
    /\ pc[p] = "restoreCopy"
    /\ \E o \in CopyDir(backup, cache) :
          /\ cache' = o.tree
          /\ cyc' = [cyc EXCEPT ![p].steps = Append(@, "copy")]
          /\ Goto(p, "restoreStamp")
    /\ Overlaps(p)
    /\ UNCHANGED <<backup, now, active>>

\* (variant: restore starts over when the copy-back has failed)
RestoreCopyRetries(p) ==
    /\ pc[p] = "restoreCopy"
    /\ \E o \in CopyDir(backup, cache) :
          /\ cache' = o.tree
          /\ cyc' = [cyc EXCEPT ![p].steps = Append(@, "copy")]
          /\ Goto(p, IF o.err THEN "restore" ELSE "restoreStamp")
    /\ Overlaps(p)
    /\ UNCHANGED <<backup, now, active>>

\* restoreTrivyDB, lines 122-124.
RestoreCopy(p) ==
    /\ pc[p] = "restoreCopy"
    /\ \E o \in CopyDir(backup, cache) :
          /\ cache' = o.tree
          /\ IF o.err
             THEN /\ cyc' = [cyc EXCEPT ![p].steps = Append(@, "copy"),
                                        ![p].restore = "copy",
                                        ![p].log = Append(@, "Error restoring from backup")]
                  /\ Goto(p, "ended")
             ELSE /\ cyc' = [cyc EXCEPT ![p].steps = Append(@, "copy")]
                  /\ Goto(p, "restoreStamp")
    /\ Overlaps(p)
    /\ UNCHANGED <<backup, now, active>>

\* (variant: a failed re-stamp makes the cycle run the tool again)
RestoreStampRetries(p) ==
    /\ pc[p] = "restoreStamp"
    /\ \E o \in UpdateMetadataNextUpdate(cache, now) :
          /\ cache' = o.tree
          /\ IF o.err # "none"
             THEN /\ cyc' = [cyc EXCEPT ![p].steps = Append(@, "stamp"),
                                        ![p].restore = "stamp:" \o o.err,
                                        ![p].rollbackAt = now,
                                        ![p].log = Append(@, "Error restoring from backup")]
                  /\ Goto(p, "run")
             ELSE /\ cyc' = [cyc EXCEPT ![p].steps = Append(@, "stamp"),
                                        ![p].restore = "ok",
                                        ![p].stampAt = now,
                                        ![p].rollbackAt = now,
                                        ![p].read = Unmarshal(cache.f[Meta]),
                                        ![p].log = @ \o <<"Delay NextUpdate timestamp to",
                                                          "Successfully restored">>]
                  /\ Goto(p, "ended")
    /\ Overlaps(p)
    /\ UNCHANGED <<backup, now, active>>

\* restoreTrivyDB, lines 126-132, with updateMetadataNextUpdate.
RestoreStamp(p) ==
    /\ pc[p] = "restoreStamp"
    /\ \E o \in UpdateMetadataNextUpdate(cache, now) :
          /\ cache' = o.tree
          /\ IF o.err # "none"
             THEN cyc' = [cyc EXCEPT ![p].steps = Append(@, "stamp"),
                                     ![p].restore = "stamp:" \o o.err,
                                     ![p].rollbackAt = now,
                                     ![p].log = Append(@, "Error restoring from backup")]
             ELSE cyc' = [cyc EXCEPT ![p].steps = Append(@, "stamp"),
                                     ![p].restore = "ok",
                                     ![p].stampAt = now,
                                     ![p].rollbackAt = now,
                                     ![p].read = Unmarshal(cache.f[Meta]),
                                     ![p].log = @ \o <<"Delay NextUpdate timestamp to",
                                                       "Successfully restored">>]
    /\ Goto(p, "ended")
    /\ Overlaps(p)
    /\ UNCHANGED <<backup, now, active>>

\* (variant: a failed re-read is treated as a failed update and rolled back)
ReportRollsBack(p) ==
    /\ pc[p] = "report"
    /\ IF ReadErr(cache)
       THEN /\ cyc' = [cyc EXCEPT ![p].steps = Append(@, "reread"),
                                  ![p].log = Append(@, "Update failed, restoring from backup...")]
            /\ Goto(p, "restore")
       ELSE /\ cyc' = [cyc EXCEPT ![p].steps = Append(@, "reread"),
                                  ![p].reported = Unmarshal(cache.f[Meta]).NextUpdate,
                                  ![p].log = Append(@, "Next Trivy DB update will happen at")]
            /\ Goto(p, "done")
    /\ Overlaps(p)
    /\ UNCHANGED <<cache, backup, now, active>>

\* main(), lines 168-172 and 190-193: re-read the metadata, print NextUpdate.
Report(p) ==
    /\ pc[p] = "report"
    /\ IF ReadErr(cache)
       THEN cyc' = [cyc EXCEPT ![p].steps = Append(@, "reread")]
       ELSE cyc' = [cyc EXCEPT ![p].steps = Append(@, "reread"),
                               ![p].reported = Unmarshal(cache.f[Meta]).NextUpdate,
                               ![p].log = Append(@, "Next Trivy DB update will happen at")]
    /\ Goto(p, "done")
    /\ Overlaps(p)
    /\ UNCHANGED <<cache, backup, now, active>>

\* The clock advances between any two steps.
Tick ==
    /\ now < MaxTime
    /\ now' = now + 1
    /\ UNCHANGED <<cache, backup, active, pc, cyc, overlap>>

Next ==
    \/ \E p \in Procs :
          \/ Invoke(p)
          \/ BackupRemove(p)
          \/ BackupCopy(p)
          \/ RunTool(p)
          \/ RestoreRemove(p)
          \/ RestoreCopy(p)
          \/ RestoreStamp(p)
          \/ Report(p)
    \/ Tick

Spec == Init /\ [][Next]_vars

\* Two invocations on the same cache directory and on /tmp/trivy_save, started
\* when the database is due and no backup exists yet.
InitConc ==
    /\ cache = Tree(TRUE, TRUE, Doc(2, InitTime + 1, InitTime - 1, InitTime, FALSE),
                    Blob("old"))
    /\ backup = NoTree
    /\ now = MaxTime - 1
    /\ active = Procs
    /\ pc = [p \in Procs |-> "idle"]
    /\ cyc = [p \in Procs |-> NewCycle(NoTree, NoTree, InitTime)]
    /\ overlap = [p \in Procs |-> FALSE]

\* A step of a run that is under way: every call of main() returns (the
\* external tool's subprocess exits, the trees are finite), so a run that
\* has started keeps taking steps until it returns.
Step(p) ==
    \/ BackupRemove(p)
    \/ BackupCopy(p)
    \/ RunTool(p)
    \/ RestoreRemove(p)
    \/ RestoreCopy(p)
    \/ RestoreStamp(p)
    \/ Report(p)

\* The invocations of the last hours of the window: the database is due or
\* unreadable at the first of them.
InitLate ==
    /\ cache \in InitCaches
    /\ backup \in InitBackups
    /\ now = MaxTime - 1
    /\ active = {1}
    /\ pc = [p \in Procs |-> "idle"]
    /\ cyc = [p \in Procs |-> NewCycle(NoTree, NoTree, InitTime)]
    /\ overlap = [p \in Procs |-> FALSE]

SpecFair == InitLate /\ [][Next]_vars /\ \A p \in Procs : WF_vars(Step(p))

\* One run of the program: main() is entered once.
Start(p) ==
    /\ pc[p] = "idle"
    /\ Invoke(p)

\* Two runs of the program, interleaved step by step.
NextConc ==
    \/ \E p \in Procs :
          \/ Start(p)
          \/ BackupRemove(p)
          \/ BackupCopy(p)
          \/ RunTool(p)
          \/ RestoreRemove(p)
          \/ RestoreCopy(p)
          \/ RestoreStamp(p)
          \/ Report(p)
    \/ Tick

SpecConc == InitConc /\ [][NextConc]_vars

\* ------------------------------------------------------------------ claims
Count(seq, x) == Cardinality({ i \in 1..Len(seq) : seq[i] = x })

\* Two trees with the same directories and files, the metadata compared as
\* the decoded record without its NextUpdate.
SameButNextUpdate(a, b) ==
    /\ a.root = b.root
    /\ a.dir = b.dir
    /\ a.f[Db] = b.f[Db]
    /\ a.f[Meta].kind = b.f[Meta].kind
    /\ [Unmarshal(a.f[Meta]) EXCEPT !.NextUpdate = 0]
          = [Unmarshal(b.f[Meta]) EXCEPT !.NextUpdate = 0]

\* C1: all-or-nothing. When an invocation has terminated, the cache is the
\* tree a successful run of the external tool produced, or the tree it held
\* when the cycle started (NextUpdate apart), whatever the outcome of each
\* step was.
C1_AllOrNothing ==
    \A p \in Procs :
        pc[p] \in Terminal =>
            \/ cyc[p].tool = "ok" /\ cache = cyc[p].toolTree
            \/ SameButNextUpdate(cache, cyc[p].pre)

\* C2: rollback postcondition. After a cycle whose backup succeeded, whose
\* external tool failed and whose restore removed the cache and copied the
\* backup back without a failing file-system call, the cache is the tree the
\* backup was taken of, and its metadata holds NextUpdate = time of the
\* rollback + 4 hours; in the due case and in the bootstrap case.
C2_RollbackPostcondition ==
    \A p \in Procs :
        (pc[p] = "ended" /\ cyc[p].restore \in {"ok", "stamp:read"}) =>
            /\ SameButNextUpdate(cache, cyc[p].snap)
            /\ ~ReadErr(cache)
            /\ cache.f[Meta].NextUpdate = cyc[p].rollbackAt + FourHours

\* C3: up to date is a no-op. An invocation that reads a metadata record
\* with NextUpdate > now ends at once as up to date: it has called nothing
\* but the read, the cache and the backup directory are as they were, and
\* the NextUpdate it prints is the one on disk.
C3_UpToDateNoOp ==
    [][\A p \in Procs :
          (Invoke(p) /\ ~ReadErr(cache) /\ cache.f[Meta].NextUpdate > now) =>
              /\ pc'[p] = "uptodate"
              /\ cyc'[p].steps = <<"read">>
              /\ cache' = cache
              /\ backup' = backup
              /\ cyc'[p].reported = cache.f[Meta].NextUpdate]_vars

C3_Witness ==
    \E p \in Procs :
        /\ pc[p] = "uptodate"
        /\ cyc[p].reported > cyc[p].startAt
        /\ cyc[p].steps = <<"read">>

\* C4 as stated: with readable metadata the cycle refreshes exactly when
\* now >= NextUpdate (now = NextUpdate counts as due).
C4_InclusiveBoundary ==
    \A p \in Procs :
        (pc[p] # "idle" /\ ~ReadErr(cyc[p].pre)) =>
            (cyc[p].branch = "due"
                <=> cyc[p].startAt >= cyc[p].pre.f[Meta].NextUpdate)

\* C4 amended: with readable metadata the cycle refreshes exactly when
\* now > NextUpdate; at now = NextUpdate it ends as up to date, with no
\* backup and no update attempted.
C4_StrictBoundary ==
    \A p \in Procs :
        (pc[p] # "idle" /\ ~ReadErr(cyc[p].pre)) =>
            /\ cyc[p].branch = "due"
                  <=> cyc[p].startAt > cyc[p].pre.f[Meta].NextUpdate
            /\ cyc[p].branch # "due" =>
                  /\ pc[p] = "uptodate"
                  /\ Count(cyc[p].steps, "backup") = 0
                  /\ Count(cyc[p].steps, "run") = 0

C4_Witness ==
    \E p \in Procs :
        /\ pc[p] = "uptodate"
        /\ ~ReadErr(cyc[p].pre)
        /\ cyc[p].startAt = cyc[p].pre.f[Meta].NextUpdate

\* The cycle was entered with the metadata unreadable or with NextUpdate
\* before (strict = TRUE) or not after (strict = FALSE) the clock.
MustRefresh(c, strict) ==
    \/ ReadErr(c.pre)
    \/ IF strict THEN c.pre.f[Meta].NextUpdate < c.startAt
       ELSE c.pre.f[Meta].NextUpdate <= c.startAt

\* C5 as stated: when the metadata is unreadable or NextUpdate <= now, the
\* terminated cycle has made exactly one backup attempt and then exactly one
\* execution of the external tool.
C5_ExactlyOneBackupAndRun ==
    \A p \in Procs :
        (pc[p] \in Terminal /\ MustRefresh(cyc[p], FALSE)) =>
            /\ Count(cyc[p].steps, "backup") = 1
            /\ Count(cyc[p].steps, "run") = 1

\* C5 amended: when the metadata is unreadable or NextUpdate < now, the
\* cycle makes exactly one backup attempt, as its first step after the read;
\* the external tool is executed exactly once if that backup succeeded and
\* not at all if it failed; never more than once.
C5_OneBackupThenAtMostOneRun ==
    \A p \in Procs :
        (pc[p] \in Terminal /\ MustRefresh(cyc[p], TRUE)) =>
            /\ Count(cyc[p].steps, "backup") = 1
            /\ cyc[p].steps[2] = "backup"
            /\ IF pc[p] = "aborted"
               THEN Count(cyc[p].steps, "run") = 0
               ELSE Count(cyc[p].steps, "run") = 1 /\ cyc[p].steps[3] = "run"

C5_Witness ==
    \E p \in Procs :
        /\ pc[p] = "done"
        /\ ~ReadErr(cyc[p].pre)
        /\ cyc[p].pre.f[Meta].NextUpdate < cyc[p].startAt
        /\ cyc[p].steps = <<"read", "backup", "run", "reread">>

\* C6: bootstrap never gets stuck. After a cycle that was entered with the
\* metadata unreadable and that ended without executing the external tool,
\* the program is not stuck: a further invocation can still reach the tool,
\* that is, backupTrivyDB can return nil on the cache and backup it finds.
C6_BootstrapNeverStuck ==
    \A p \in Procs :
        (/\ pc[p] \in Terminal
         /\ cyc[p].branch = "bootstrap"
         /\ Count(cyc[p].steps, "run") = 0) =>
            \E o \in BackupTrivyDB(cache, backup) : ~o.err

\* C7: re-arming. After a cycle in which the external tool failed and the
\* rollback ran (the cache was removed and the backup copied back), every
\* later invocation made before rollback time + 4 hours ends as up to date,
\* with no backup and no execution of the tool; for a failed cycle that
\* started as due and for one that started as bootstrap.
C7_RearmedAfterRollback ==
    \A p \in Procs :
        (/\ pc[p] # "idle"
         /\ cyc[p].prevRollbackAt >= 0
         /\ cyc[p].startAt < cyc[p].prevRollbackAt + FourHours) =>
            /\ cyc[p].branch = "uptodate"
            /\ Count(cyc[p].steps, "backup") = 0
            /\ Count(cyc[p].steps, "run") = 0

\* C8: a failed backup aborts before any mutation. A cycle reports a backup
\* error exactly when it ends as aborted; it has then called nothing but the
\* read and the backup (no tool, no restore, no metadata write), the error
\* is the last line it printed, and the cache is the tree of the cycle start.
C8_BackupFailureAborts ==
    \A p \in Procs :
        /\ (Count(cyc[p].log, "Error backing up Trivy DB") > 0) <=> (pc[p] = "aborted")
        /\ pc[p] = "aborted" =>
              /\ cyc[p].steps = <<"read", "backup">>
              /\ cyc[p].log[Len(cyc[p].log)] = "Error backing up Trivy DB"
              /\ cyc[p].tool = "none"
              /\ cyc[p].restore = "none"
              /\ cache = cyc[p].pre

C8_Witness ==
    \E p \in Procs :
        /\ pc[p] = "aborted"
        /\ cache.f[Db].kind = "blob"
        /\ backup # cyc[p].bkPre

\* C9: the backup is an exact snapshot. When backupTrivyDB has returned nil,
\* the backup directory holds exactly the tree of the cache at that moment,
\* whatever it held before, and a second backup of the unchanged cache
\* leaves the backup directory as the first one did.
C9_BackupExactSnapshot ==
    \A p \in Procs :
        pc[p] = "run" =>
            /\ backup = cyc[p].snap
            /\ \A o \in BackupTrivyDB(cache, backup) : ~o.err => o.tree = backup

\* C10: the frame of the re-stamp. When updateMetadataNextUpdate succeeds,
\* the metadata file holds NextUpdate = now + 4 hours, later than now and
\* than the NextUpdate it read, with the Version, UpdatedAt and DownloadedAt
\* it read, and nothing else in the cache has changed; when the metadata
\* cannot be read or parsed it fails and the cache is unchanged.
C10_StampFrame ==
    [][\A p \in Procs :
          RestoreStamp(p) =>
              /\ ReadErr(cache) =>
                    /\ cyc'[p].restore = "stamp:read"
                    /\ cache' = cache
              /\ cyc'[p].restore = "ok" =>
                    /\ ~ReadErr(cache)
                    /\ cache'.f[Meta].kind = "json"
                    /\ cache'.f[Meta].NextUpdate = now + FourHours
                    /\ cache'.f[Meta].NextUpdate > now
                    /\ cache'.f[Meta].NextUpdate > cache.f[Meta].NextUpdate
                    /\ cache'.f[Meta].Version = cache.f[Meta].Version
                    /\ cache'.f[Meta].UpdatedAt = cache.f[Meta].UpdatedAt
                    /\ cache'.f[Meta].DownloadedAt = cache.f[Meta].DownloadedAt
                    /\ cache' = [cache EXCEPT !.f[Meta] = cache'.f[Meta]]]_vars

C10_Witness ==
    \E p \in Procs :
        /\ pc[p] = "ended"
        /\ cyc[p].restore = "ok"
        /\ cyc[p].read.Version = 2
        /\ cyc[p].read.UpdatedAt # cyc[p].read.DownloadedAt
        /\ cache.f[Meta] = Marshal([cyc[p].read EXCEPT
                                       !.NextUpdate = cyc[p].stampAt + FourHours])

\* The last line a cycle has printed.
LastLine(c) == c.log[Len(c.log)]

\* The lines that are printed before the re-read of a successful update.
BeforeReread == {"Successfully backed up", "Trivy DB update complete."}

\* C11 as stated: after a successful run of the tool the cycle re-reads the
\* metadata and reports its NextUpdate; when the re-read fails the failure
\* is reported (a line is printed for it) and there is no rollback.
C11_RereadFailureReported ==
    \A p \in Procs :
        pc[p] = "done" =>
            /\ cyc[p].restore = "none"
            /\ cache = cyc[p].toolTree
            /\ IF ReadErr(cache)
               THEN LastLine(cyc[p]) \notin BeforeReread
               ELSE cyc[p].reported = cache.f[Meta].NextUpdate

\* C11 amended: after a successful run of the tool the cycle never restores:
\* the cache stays as the tool left it. It re-reads the metadata and prints
\* the NextUpdate it finds; when the re-read fails it prints nothing at all
\* for it (the error is dropped) and ends.
C11_RereadFailureSilent ==
    \A p \in Procs :
        cyc[p].tool = "ok" =>
            /\ pc[p] \in {"report", "done"}
            /\ cyc[p].restore = "none"
            /\ Count(cyc[p].steps, "remove") = 0
            /\ cache = cyc[p].toolTree
            /\ pc[p] = "done" =>
                  /\ cyc[p].steps = <<"read", "backup", "run", "reread">>
                  /\ IF ReadErr(cache)
                     THEN /\ cyc[p].reported = 0 - 1
                          /\ LastLine(cyc[p]) \in BeforeReread
                     ELSE /\ cyc[p].reported = cache.f[Meta].NextUpdate
                          /\ LastLine(cyc[p]) = "Next Trivy DB update will happen at"

C11_Witness ==
    \E p \in Procs :
        /\ pc[p] = "done"
        /\ cyc[p].tool = "ok"
        /\ ReadErr(cache)
        /\ cache.f[Db] = Blob("new")

\* The calls of a cycle whose restore stopped with result r.
RollbackSteps(r) ==
    IF r = "remove" THEN <<"read", "backup", "run", "remove">>
    ELSE IF r = "copy" THEN <<"read", "backup", "run", "remove", "copy">>
    ELSE <<"read", "backup", "run", "remove", "copy", "stamp">>

\* C12: exactly one rollback attempt. Once the external tool has failed the
\* cycle only restores: the tool is not run again and each step of restore
\* is called at most once. When the cycle has ended, restore was called
\* once, it stopped at its first failing step (remove, copy-back or
\* re-stamp), and that failure is the one error printed, as the last line.
C12_OneRollbackAttempt ==
    \A p \in Procs :
        /\ pc[p] = "ended" => cyc[p].tool = "fail"
        /\ cyc[p].tool = "fail" =>
              /\ pc[p] \in {"restore", "restoreCopy", "restoreStamp", "ended"}
              /\ Count(cyc[p].steps, "run") = 1
              /\ Count(cyc[p].steps, "remove") <= 1
              /\ Count(cyc[p].steps, "copy") <= 1
              /\ Count(cyc[p].steps, "stamp") <= 1
              /\ pc[p] = "ended" =>
                    /\ cyc[p].restore # "none"
                    /\ cyc[p].steps = RollbackSteps(cyc[p].restore)
                    /\ IF cyc[p].restore = "ok"
                       THEN Count(cyc[p].log, "Error restoring from backup") = 0
                       ELSE /\ Count(cyc[p].log, "Error restoring from backup") = 1
                            /\ LastLine(cyc[p]) = "Error restoring from backup"

C12_Witness ==
    \E p \in Procs :
        /\ pc[p] = "ended"
        /\ cyc[p].restore = "copy"
        /\ cache # cyc[p].pre
        /\ cyc[p].steps = <<"read", "backup", "run", "remove", "copy">>

\* Where a cycle stands once backupTrivyDB has returned nil.
AfterBackup ==
    {"run", "report", "done", "restore", "restoreCopy", "restoreStamp", "ended"}

\* Tree b holds every directory and file of tree a, with a's content.
Holds(b, a) ==
    /\ a.root => b.root
    /\ a.dir => b.dir
    /\ \A n \in Files : a.f[n].kind # "absent" => b.f[n] = a.f[n]

\* C13: the backup is not touched after it is taken. From the moment
\* backupTrivyDB has returned nil to the end of the cycle, after a successful
\* update as after a restore, the backup directory exists, is exactly as the
\* backup step left it, and holds the tree the cache had before the update.
C13_BackupUntouched ==
    \A p \in Procs :
        pc[p] \in AfterBackup =>
            /\ backup.root
            /\ backup = cyc[p].bkTaken
            /\ Holds(backup, cyc[p].snap)

C13_Witness ==
    \E p \in Procs :
        /\ pc[p] = "ended"
        /\ cyc[p].restore = "ok"
        /\ backup = cyc[p].bkTaken
        /\ backup.f[Db] = Blob("old")
        /\ cache.f[Meta] # backup.f[Meta]

\* The lines that tell how a branch was entered and that a phase is over;
\* the other lines report the outcome of a step.
PhaseLines ==
    {"Error reading metadata.json", "Executing Trivy DB download...",
     "Updating Trivy DB...", "Trivy DB update complete."}

IsOutcomeLine(l) == l \notin PhaseLines

\* The outcome lines of a cycle, in order.
OutcomeReport(c) == SelectSeq(c.log, IsOutcomeLine)

\* The calls and the outcome lines that the outcomes of backup, tool and
\* restore determine, whatever the branch: l is the terminal state, r the
\* result of restore, shown whether the re-read gave a NextUpdate to print.
PathSteps(l, r) ==
    IF l = "aborted" THEN <<"read", "backup">>
    ELSE IF l = "done" THEN <<"read", "backup", "run", "reread">>
    ELSE RollbackSteps(r)

PathReport(l, r, shown) ==
    IF l = "aborted" THEN <<"Error backing up Trivy DB">>
    ELSE IF l = "done"
    THEN <<"Successfully backed up">>
         \o (IF shown THEN <<"Next Trivy DB update will happen at">> ELSE <<>>)
    ELSE <<"Successfully backed up", "trivy command failed",
           "Update failed, restoring from backup...">>
         \o (IF r = "ok"
             THEN <<"Delay NextUpdate timestamp to", "Successfully restored">>
             ELSE <<"Error restoring from backup">>)

\* C14: bootstrap and due are the same path. A cycle entered because the
\* metadata read failed and one entered because NextUpdate has passed make
\* the calls, reach the terminal state and print the outcome lines that the
\* outcomes of backup, tool and restore determine, with no dependence on the
\* branch; each of the three terminal states is open to both branches.
C14_SamePath ==
    \A p \in Procs :
        (pc[p] \in Terminal /\ cyc[p].branch \in {"bootstrap", "due"}) =>
            /\ pc[p] \in {"aborted", "done", "ended"}
            /\ pc[p] = "aborted" <=> cyc[p].tool = "none"
            /\ pc[p] = "done" <=> cyc[p].tool = "ok"
            /\ pc[p] = "ended" <=> cyc[p].tool = "fail"
            /\ cyc[p].steps = PathSteps(pc[p], cyc[p].restore)
            /\ OutcomeReport(cyc[p])
                  = PathReport(pc[p], cyc[p].restore, cyc[p].reported >= 0)

C14_Witness ==
    \E p \in Procs :
        /\ pc[p] = "ended"
        /\ cyc[p].branch = "bootstrap"
        /\ cyc[p].restore = "ok"
        /\ cyc[p].steps = <<"read", "backup", "run", "remove", "copy", "stamp">>

IsPrefix(s, t) == Len(s) <= Len(t) /\ s = SubSeq(t, 1, Len(s))

SuccessOrder == <<"read", "backup", "run", "reread">>

RollbackOrder == <<"read", "backup", "run", "remove", "copy", "stamp">>

\* C15: step ordering within a cycle. The calls of a cycle are a prefix of
\* read, backup, run, re-read or of read, backup, run, remove, copy, stamp;
\* the tool runs only once backupTrivyDB has returned nil in this cycle;
\* restore starts only once the tool has failed in this cycle; the copy-back
\* starts only when the cache is gone; the re-stamp starts only when the
\* copy-back has put the whole backup in place; a step is complete when the
\* next starts.
C15_StepOrder ==
    \A p \in Procs :
        /\ IsPrefix(cyc[p].steps, SuccessOrder)
              \/ IsPrefix(cyc[p].steps, RollbackOrder)
        /\ (pc[p] = "run" \/ Count(cyc[p].steps, "run") > 0) =>
              /\ cyc[p].bkTaken.root
              /\ Count(cyc[p].log, "Successfully backed up") = 1
              /\ Count(cyc[p].log, "Error backing up Trivy DB") = 0
        /\ pc[p] = "run" => cyc[p].tool = "none" /\ backup = cyc[p].bkTaken
        /\ (pc[p] \in {"restore", "restoreCopy", "restoreStamp"}
               \/ Count(cyc[p].steps, "remove") > 0) =>
              /\ cyc[p].tool = "fail"
              /\ Count(cyc[p].log, "trivy command failed") = 1
        /\ pc[p] = "restore" => cache = cyc[p].toolTree
        /\ pc[p] = "restoreCopy" => cache = NoTree /\ cyc[p].restore = "none"
        /\ pc[p] = "restoreStamp" => cache = backup /\ cyc[p].restore = "none"
        /\ Count(cyc[p].steps, "stamp") > 0 =>
              cyc[p].restore \in {"ok", "stamp:read", "stamp:write"}

C15_Witness ==
    \E p \in Procs :
        /\ pc[p] = "restoreStamp"
        /\ cyc[p].steps = <<"read", "backup", "run", "remove", "copy">>
        /\ cyc[p].tool = "fail"
        /\ cache = backup
        /\ cache # cyc[p].toolTree

\* C16: concurrent invocations are unsafe. A cycle that no other invocation
\* overlaps backs up the cache it started with, keeps that backup, and, when
\* the backup was exact and restore returned nil, ends a failed update with
\* the cache it started with (beyond NextUpdate); with two interleaved
\* invocations a state is reached (C16_Witness) in which every file-system
\* call has succeeded, the backup is the snapshot of a half-updated cache and
\* the failed cycle has ended with a cache other than the one it started with.
C16_AloneIsSafe ==
    \A p \in Procs :
        (~overlap[p] /\ pc[p] \in AfterBackup) =>
            /\ cyc[p].snap = cyc[p].pre
            /\ backup = cyc[p].bkTaken
            /\ (pc[p] = "ended" /\ cyc[p].restore = "ok"
                   /\ cyc[p].bkTaken = cyc[p].snap) =>
                  SameButNextUpdate(cache, cyc[p].pre)

C16_Witness ==
    \E p \in Procs : \E q \in Procs \ {p} :
        /\ pc[p] = "ended"
        /\ cyc[p].tool = "fail"
        /\ cyc[p].restore = "ok"
        /\ cyc[p].bkTaken = cyc[p].snap
        /\ cyc[p].snap = cyc[p].pre
        /\ cyc[p].toolTree.f[Db] = Garbage
        /\ ~SameButNextUpdate(cache, cyc[p].pre)
        /\ pc[q] \in AfterBackup
        /\ cyc[q].snap = cyc[p].toolTree
        /\ cyc[q].bkTaken = cyc[q].snap
        /\ backup = cyc[q].bkTaken

\* C17: the last good snapshot survives a degraded cache. In the cycle that
\* follows one whose copy-back failed, as long as the external tool has not
\* rebuilt the cache, a backup directory that held a complete database when
\* that cycle started still holds every file of it.
C17_SnapshotSurvives ==
    \A p \in Procs :
        (cyc[p].afterDegraded /\ cyc[p].branch \in {"bootstrap", "due"}
             /\ cyc[p].bkPre.f[Meta].kind = "json"
             /\ cyc[p].bkPre.f[Db].kind = "blob"
             /\ cyc[p].tool # "ok") =>
            Holds(backup, cyc[p].bkPre)

\* The phases of main() in the order of the program text; the re-read after
\* a successful update and the restore after a failed one are alternatives.
Phases ==
    << {"backup"}, {"backupCopy"}, {"run"}, {"report", "restore"},
       {"restoreCopy"}, {"restoreStamp"}, Terminal >>

Rank(l) == CHOOSE i \in DOMAIN Phases : l \in Phases[i]

NoLoopBack ==
    \A p \in Procs :
        (Mid(p) /\ pc'[p] # pc[p]) => Rank(pc'[p]) > Rank(pc[p])

\* C18: every invocation terminates. An invocation that has started reaches
\* one of the terminal states (up to date, done, aborted, ended); every step
\* it takes on the way moves it to a later phase of main(), never back; a
\* cycle makes at most six calls.
C18_Terminates ==
    /\ \A p \in Procs : Mid(p) ~> pc[p] \in Terminal
    /\ [][NoLoopBack]_vars
    /\ [](\A p \in Procs : Len(cyc[p].steps) <= Len(RollbackOrder))

C18_Witness ==
    \E p \in Procs :
        /\ pc[p] = "ended"
        /\ cyc[p].branch = "due"
        /\ Len(cyc[p].steps) = Len(RollbackOrder)
        /\ now > cyc[p].startAt

====
